---------------------------- MODULE Spec2Model ----------------------------
(***************************************************************************)
(* Drone delivery fleet: the grid router (routing.py), the three planners   *)
(* (optimizer.py) and the executor (main.py).                               *)
(*                                                                         *)
(* Number representation.  The program computes with Python floats.  Here   *)
(*   - a coordinate is an integer count of half units (x = 3 is 1.5), so a  *)
(*     position may lie off the cell corners; the router's resolution is   *)
(*     1.0, hence cell = coordinate \div 2 and a cell's real coordinate is  *)
(*     2 * cell;                                                           *)
(*   - a distance, an energy and a time are integers in tenths (fixed       *)
(*     point): sqrt is the integer square root of the value in hundredths.  *)
(* Exclusion polygons are axis-aligned rectangles [x1, y1, x2, y2], as in   *)
(* the sample data and the tests; segment/polygon intersection on them is   *)
(* exact integer arithmetic (closed segment against closed polygon).        *)
(***************************************************************************)
EXTENDS Integers, Sequences, FiniteSets, TLC

\* The grid is GridW x GridW cells (grid_size; 100 x 100 in the program).
GridW == 3

Min(a, b) == IF a <= b THEN a ELSE b
Max(a, b) == IF a >= b THEN a ELSE b

\* Largest coordinate (half units): the upper edge of the grid, x = GridW.
MaxCoord == 2 * GridW
Points == (0..MaxCoord) \X (0..MaxCoord)

\* np.sqrt on a value in hundredths, result in tenths (fixed point).
SqrtTable == [n \in 0..(200 * GridW * GridW) |->
                CHOOSE r \in 0..(20 * GridW) : r * r <= n /\ (r + 1) * (r + 1) > n]
           @@ << >>
Sqrt(n) == SqrtTable[n]

\* Euclidean distance between two real positions (half units), in tenths.
Distance(a, b) ==
    Sqrt(25 * ((a[1] - b[1]) * (a[1] - b[1]) + (a[2] - b[2]) * (a[2] - b[2])))

\* AStarRouter._euclidean_distance, on grid cells (cell units), in tenths.
euclidean_distance(a, b) ==
    Sqrt(100 * ((a[1] - b[1]) * (a[1] - b[1]) + (a[2] - b[2]) * (a[2] - b[2])))

--------------------------------------------------------------------------
(* zone.py: NoFlyZone on rectangles *)

\* NoFlyZone.is_active: the activation interval is closed.
is_active(zone, t) == zone.start <= t /\ t <= zone.end

InPolygon(zone, p) ==
    zone.x1 <= p[1] /\ p[1] <= zone.x2 /\ zone.y1 <= p[2] /\ p[2] <= zone.y2

Cross(o, a, b) == (a[1] - o[1]) * (b[2] - o[2]) - (a[2] - o[2]) * (b[1] - o[1])
Sign(n) == IF n > 0 THEN 1 ELSE IF n < 0 THEN -1 ELSE 0
OnSegment(p, q, r) ==
    /\ Min(p[1], q[1]) <= r[1] /\ r[1] <= Max(p[1], q[1])
    /\ Min(p[2], q[2]) <= r[2] /\ r[2] <= Max(p[2], q[2])

\* Closed segment p1-q1 meets closed segment p2-q2.
SegmentsIntersect(p1, q1, p2, q2) ==
    LET o1 == Sign(Cross(p1, q1, p2))
        o2 == Sign(Cross(p1, q1, q2))
        o3 == Sign(Cross(p2, q2, p1))
        o4 == Sign(Cross(p2, q2, q1))
    IN  \/ (o1 # o2 /\ o3 # o4)
        \/ (o1 = 0 /\ OnSegment(p1, q1, p2))
        \/ (o2 = 0 /\ OnSegment(p1, q1, q2))
        \/ (o3 = 0 /\ OnSegment(p2, q2, p1))
        \/ (o4 = 0 /\ OnSegment(p2, q2, q1))

\* NoFlyZone.intersects_line: polygon.intersects(LineString([start, end])).
intersects_line(zone, a, b) ==
    LET c1 == <<zone.x1, zone.y1>>
        c2 == <<zone.x2, zone.y1>>
        c3 == <<zone.x2, zone.y2>>
        c4 == <<zone.x1, zone.y2>>
    IN  \/ InPolygon(zone, a)
        \/ InPolygon(zone, b)
        \/ SegmentsIntersect(a, b, c1, c2)
        \/ SegmentsIntersect(a, b, c2, c3)
        \/ SegmentsIntersect(a, b, c3, c4)
        \/ SegmentsIntersect(a, b, c4, c1)

\* NoFlyZone.distance_to_boundary: distance from p to the polygon's ring.
distance_to_boundary(zone, p) ==
    IF InPolygon(zone, p)
    THEN 5 * Min(Min(p[1] - zone.x1, zone.x2 - p[1]),
                 Min(p[2] - zone.y1, zone.y2 - p[2]))
    ELSE LET dx == Max(Max(zone.x1 - p[1], p[1] - zone.x2), 0)
             dy == Max(Max(zone.y1 - p[2], p[2] - zone.y2), 0)
         IN  Sqrt(25 * (dx * dx + dy * dy))

\* any(zone.is_active(t) and any(zone.intersects_line(path[i], path[i+1]) ...)):
\* the validity check every caller of the router applies to the returned path.
path_blocked(path, zones, t) ==
    \E zone \in zones :
        /\ is_active(zone, t)
        /\ \E i \in 1..(Len(path) - 1) : intersects_line(zone, path[i], path[i + 1])

\* sum(np.sqrt(...) for i in range(len(path)-1)): the length of a path.
RECURSIVE PathLength(_)
PathLength(path) ==
    IF Len(path) < 2 THEN 0
    ELSE Distance(path[1], path[2]) + PathLength(Tail(path))

--------------------------------------------------------------------------
(* routing.py: AStarRouter, resolution 1.0 *)

\* int(x / self.resolution): truncation, on non-negative coordinates.
to_grid(p) == <<p[1] \div 2, p[2] \div 2>>
\* (pos[0] * self.resolution, pos[1] * self.resolution)
to_real(c) == <<2 * c[1], 2 * c[2]>>

Directions == << <<0, 1>>, <<1, 0>>, <<0, -1>>, <<-1, 0>>,
                 <<1, 1>>, <<-1, 1>>, <<1, -1>>, <<-1, -1>> >>

\* The cells a search can touch: the grid, and a start or goal on the upper edge.
Cells == (0..GridW) \X (0..GridW)

in_grid(c) == 0 <= c[1] /\ c[1] < GridW /\ 0 <= c[2] /\ c[2] < GridW

\* AStarRouter._get_neighbors: the in-grid neighbours, in the order of the list.
get_neighbors(pos) ==
    LET all == [i \in 1..8 |-> <<pos[1] + Directions[i][1], pos[2] + Directions[i][2]>>]
    IN  SelectSeq(all, in_grid)

\* AStarRouter._is_valid_move with prev_pos given (find_path always gives it).
is_valid_move(pos, zones, t, prev_pos) ==
    \A zone \in zones :
        is_active(zone, t) => ~intersects_line(zone, to_real(prev_pos), to_real(pos))

PenaltyThreshold == 50

\* AStarRouter._heuristic: distance in cells plus the proximity penalty.
RECURSIVE SumPenalty(_, _)
SumPenalty(zs, p) ==
    IF zs = {} THEN 0
    ELSE LET z == CHOOSE z \in zs : TRUE
             d == distance_to_boundary(z, p)
         IN  (IF d < PenaltyThreshold THEN (PenaltyThreshold - d) * 2 ELSE 0)
             + SumPenalty(zs \ {z}, p)

heuristic(a, b, zones, t) ==
    euclidean_distance(a, b)
    + SumPenalty({z \in zones : is_active(z, t)}, to_real(a))

NoScore == -1

\* One pass of the neighbour loop of find_path (lines 99-111) from index i.
RECURSIVE Relax(_, _, _, _, _, _, _)
Relax(st, current, nbrs, i, goal, zones, t) ==
    IF i > Len(nbrs) THEN st
    ELSE LET nb == nbrs[i]
             tentative == st.g[current] + euclidean_distance(current, nb)
         IN  IF nb \in st.closed \/ ~is_valid_move(nb, zones, t, current)
             THEN Relax(st, current, nbrs, i + 1, goal, zones, t)
             ELSE IF st.g[nb] = NoScore \/ tentative < st.g[nb]
             THEN CHOOSE r \in
                    {Relax(pushed, current, nbrs, i + 1, goal, zones, t) :
                        pushed \in {[st EXCEPT
                            !.came[nb] = current,
                            !.g[nb] = tentative,
                            !.open = @ \cup {<<tentative + heuristic(nb, goal, zones, t),
                                              st.counter, nb>>},
                            !.counter = @ + 1]}} : TRUE
             ELSE Relax(st, current, nbrs, i + 1, goal, zones, t)

\* heappop: the least (f, counter, cell) entry.
HeapMin(open) ==
    CHOOSE e \in open :
        \A o \in open : e[1] < o[1] \/ (e[1] = o[1] /\ e[2] <= o[2])

\* Path reconstruction (lines 88-95): cells back to the start, then the
\* caller's own start position, reversed.
RECURSIVE Reconstruct(_, _)
Reconstruct(came, current) ==
    IF came[current] = current THEN << >>
    ELSE Reconstruct(came, came[current]) \o <<to_real(current)>>

\* An iteration that leaves its popped entry on the heap.
search_step_keeps_popped(st, goal, zones, t) ==
    LET e == HeapMin(st.open)
        current == e[3]
    IN  CHOOSE r \in
            {Relax(popped, c, get_neighbors(c), 1, to_grid(goal), zones, t) :
                popped \in {[st EXCEPT !.closed = @ \cup {current}]},
                c \in {current}} : TRUE

\* One iteration of the while loop that does not pop the goal cell: heappop
\* (line 84), closed_set.add (line 97), the neighbor loop (lines 99-111).
search_step(st, goal, zones, t) ==
    LET e == HeapMin(st.open)
        current == e[3]
    IN  CHOOSE r \in
            {Relax(popped, c, get_neighbors(c), 1, to_grid(goal), zones, t) :
                popped \in {[st EXCEPT !.open = @ \ {e}, !.closed = @ \cup {current}]},
                c \in {current}} : TRUE

\* The while loop of find_path (lines 83-113).
RECURSIVE Search(_, _, _, _, _)
Search(st, start, goal, zones, t) ==
    IF st.open = {} THEN << >>
    ELSE LET e == HeapMin(st.open)
             current == e[3]
         IN  IF current = to_grid(goal)
             THEN <<start>> \o Reconstruct(st.came, current)
             ELSE Search(search_step(st, goal, zones, t), start, goal, zones, t)

\* The state of find_path before its loop (lines 68-81).  came[c] = c stands
\* for "c not in came_from".
search_start(start, goal, zones, t) ==
    LET start_grid == to_grid(start)
        goal_grid == to_grid(goal)
    IN  [open |-> {<<heuristic(start_grid, goal_grid, zones, t), 0, start_grid>>},
         closed |-> {},
         came |-> [c \in Cells |-> c],
         g |-> [c \in Cells |-> IF c = start_grid THEN 0 ELSE NoScore],
         counter |-> 1]

\* AStarRouter.find_path.
find_path(start, goal, zones, t) ==
    Search(search_start(start, goal, zones, t), start, goal, zones, t)

--------------------------------------------------------------------------
(* The system: DroneDeliverySystem (main.py) and the objects it holds *)

\* Operations performed in one run of the model (cap on the run length).
MaxOps == 2

\* The identifiers of the drones and parcels a data set can hold.
DroneIds == {1, 2}
DeliveryIds == {1, 2}

\* DroneDeliverySystem.current_time: set once at construction, never advanced.
\* It is the origin of the time axis.
current_time == 0

VARIABLES
    drones,         \* self.drones: id -> Drone (drone.py)
    deliveries,     \* self.deliveries: id -> Delivery (delivery.py)
    no_fly_zones,   \* self.no_fly_zones
    assignment,     \* the dict the last optimize_deliveries returned
    optimizer,      \* the last planner object built: its stored initial states
    last,           \* the operation performed last
    prev,           \* the operation performed before it
    considered,     \* parcels the last planner run looked at before its deadline
    legs,           \* route legs the last operation appended to the routes
    ops,            \* number of operations performed
    query,          \* the call under study in the specifications of one function: a router
                    \* call and its answers, a search in progress, a population
    trail,          \* what the last operation did, parcel by parcel
    raised          \* the exception the last operation raised, or "none"

vars == <<drones, deliveries, no_fly_zones, assignment, optimizer, last, prev,
          considered, legs, ops, query, trail, raised>>

\* self.drones and self.deliveries, by identifier.
Drones == DOMAIN drones
Deliveries == DOMAIN deliveries

Planners == {"solve_csp", "solve", "solve_greedy"}

\* Fleet order (self.drones) and parcel order (self.deliveries) are id order.
RECURSIVE SeqOfSet(_)
SeqOfSet(S) ==
    IF S = {} THEN << >>
    ELSE LET m == CHOOSE m \in S : \A o \in S : m <= o
         IN  <<m>> \o SeqOfSet(S \ {m})

DroneOrder == SeqOfSet(Drones)
DeliveryOrder == SeqOfSet(Deliveries)

--------------------------------------------------------------------------
(* Inputs: a base data set and the variations of it *)

\* The exclusion rectangle of the data set: x in [1.0, 1.5], y in [0.0, 1.5].
Zone(start, end) == [x1 |-> 2, y1 |-> 0, x2 |-> 3, y2 |-> 3, start |-> start, end |-> end]

Horizon == 200

\* No zone, the zone active from the start, the zone active from time 0.5 on.
ZoneChoices == {{}, {Zone(0, Horizon)}, {Zone(5, Horizon)}}

ScenarioSpace ==
    [battery : {200, 12},            \* drone 1's battery_capacity
     battery2 : {200, 60},           \* drone 2's battery_capacity
     home    : {<<1, 1>>, <<MaxCoord, 0>>},   \* drone 1's start_position
     speed   : {1, 2},               \* drone 1's speed
     position : {<<4, 0>>, <<5, 3>>, <<1, 0>>, <<MaxCoord, 2>>},   \* parcel 1
     weight  : {1, 2, 3},            \* parcel 1; every max_weight is 2
     window  : {<<0, Horizon>>, <<-20, -10>>, <<0, 10>>, <<0, 9>>,
                <<11, Horizon>>},                                  \* parcel 1
     priority : {2, 1},              \* parcel 2; parcel 1 has priority 1
     zones   : ZoneChoices]

BaseScenario ==
    [battery |-> 200, battery2 |-> 200, home |-> <<1, 1>>, speed |-> 1, position |-> <<4, 0>>, weight |-> 1,
     window |-> <<0, Horizon>>, priority |-> 2, zones |-> {}]

\* The data sets: the base one with one field varied, or with the zones and
\* the position of parcel 1 varied, or with both batteries varied.
Scenarios ==
    {s \in ScenarioSpace :
        LET varied == {f \in DOMAIN BaseScenario : s[f] # BaseScenario[f]}
        IN  \/ Cardinality(varied) <= 1
            \/ varied = {"zones", "position"}
            \/ varied = {"battery", "battery2"}}

\* Drone.__post_init__: position at home, battery full, route = [home].
NewDrone(max_weight, battery_capacity, speed, start_position) ==
    [max_weight |-> max_weight, battery_capacity |-> battery_capacity,
     speed |-> speed, start_position |-> start_position,
     current_position |-> start_position, current_battery |-> battery_capacity,
     current_weight |-> 0, route |-> <<start_position>>]

NoDrone == 0

\* Delivery's defaults: assigned_drone = None, status = "pending".
NewDelivery(position, weight, priority, time_window_start, time_window_end) ==
    [position |-> position, weight |-> weight, priority |-> priority,
     time_window_start |-> time_window_start, time_window_end |-> time_window_end,
     assigned_drone |-> NoDrone, status |-> "pending"]

\* Drone 1 starts off a cell corner at (0.5, 0.5), or where drone 2 starts;
\* drone 2 on the upper edge of the grid, at (GridW, 0), as drone2 of the test
\* suite at (100.0, 0.0).
ScenarioDrones(s) ==
    [d \in DroneIds |->
        IF d = 1 THEN NewDrone(2, s.battery, s.speed, s.home)
        ELSE NewDrone(2, s.battery2, 1, <<MaxCoord, 0>>)]

ScenarioDeliveries(s) ==
    [p \in DeliveryIds |->
        IF p = 1 THEN NewDelivery(s.position, s.weight, 1, s.window[1], s.window[2])
        ELSE NewDelivery(<<2, 4>>, 1, s.priority, 0, Horizon)]

NoOptimizer == [kind |-> "none"]
NoQuery == [phase |-> "none"]

Init ==
    /\ \E s \in Scenarios :
        /\ drones = ScenarioDrones(s)
        /\ deliveries = ScenarioDeliveries(s)
        /\ no_fly_zones = s.zones
    /\ assignment = [d \in Drones |-> << >>]
    /\ optimizer = NoOptimizer
    /\ last = "init"
    /\ prev = "init"
    /\ considered = {}
    /\ legs = {}
    /\ ops = 0
    /\ query = NoQuery
    /\ trail = << >>
    /\ raised = "none"

--------------------------------------------------------------------------
(* optimizer.py: DeliveryOptimizer *)

\* A slip in the validation: only the fleet tested.
constructor_accepts_any_parcels(the_drones, the_deliveries) ==
    DOMAIN the_drones # {}

\* __init__ (lines 109-110, 353-354): `if not drones or not deliveries: raise`.
constructor_accepts(the_drones, the_deliveries) ==
    DOMAIN the_drones # {} /\ DOMAIN the_deliveries # {}

\* _store_initial_states: what reset_all_data restores.
store_initial_states(kind) ==
    [kind |-> kind,
     initial_drone_states |->
        [d \in Drones |-> [position |-> drones[d].current_position,
                           battery |-> drones[d].current_battery]],
     initial_delivery_states |->
        [p \in Deliveries |-> [status |-> deliveries[p].status,
                               assigned_drone |-> deliveries[p].assigned_drone]]]

\* A slip in the two sorts: the parcels left in list order.
csp_before_unsorted(p, q) == p < q

\* Delivery.__lt__ (used by sorted(deliveries) in __init__), then the stable
\* sorted(..., key=(-priority, time_window_start)) of solve_csp: p before q.
csp_before(p, q) ==
    LET a == deliveries[p]
        b == deliveries[q]
    IN  \/ a.priority > b.priority
        \/ /\ a.priority = b.priority
           /\ \/ a.time_window_start < b.time_window_start
              \/ /\ a.time_window_start = b.time_window_start
                 /\ \/ a.time_window_end < b.time_window_end
                    \/ (a.time_window_end = b.time_window_end /\ p < q)

\* The parcels in the order solve_csp walks them (line 232).
RECURSIVE csp_sorted(_)
csp_sorted(S) ==
    IF S = {} THEN << >>
    ELSE LET m == CHOOSE m \in S : \A o \in S \ {m} : csp_before(m, o)
         IN  <<m>> \o csp_sorted(S \ {m})

csp_order == csp_sorted(Deliveries)

\* drone_states (lines 233-238): the working snapshot of every drone.
initial_drone_states_csp ==
    [d \in Drones |-> [position |-> drones[d].current_position,
                       battery |-> drones[d].current_battery,
                       time |-> current_time,
                       route |-> drones[d].route]]

\* A slip in line 278: the window taken as open at its end.
csp_candidate_open_window(d, state, p) ==
    LET delivery == deliveries[p]
        path == find_path(state.position, delivery.position, no_fly_zones, state.time)
        total_dist == PathLength(path)
        arrival_time == state.time + (total_dist \div drones[d].speed)
    IN  IF \/ delivery.weight > drones[d].max_weight
           \/ Len(path) < 2
           \/ path_blocked(path, no_fly_zones, state.time)
           \/ total_dist > state.battery
           \/ ~(delivery.time_window_start <= arrival_time
                 /\ arrival_time < delivery.time_window_end)
        THEN [ok |-> FALSE]
        ELSE [ok |-> TRUE, path |-> path, total_dist |-> total_dist,
              arrival_time |-> arrival_time]

\* A slip in line 276: the route never compared with the battery.
csp_candidate_unpowered(d, state, p) ==
    LET delivery == deliveries[p]
        path == find_path(state.position, delivery.position, no_fly_zones, state.time)
        total_dist == PathLength(path)
        arrival_time == state.time + (total_dist \div drones[d].speed)
    IN  IF \/ delivery.weight > drones[d].max_weight
           \/ Len(path) < 2
           \/ path_blocked(path, no_fly_zones, state.time)
           \/ ~(delivery.time_window_start <= arrival_time
                 /\ arrival_time <= delivery.time_window_end)
        THEN [ok |-> FALSE]
        ELSE [ok |-> TRUE, path |-> path, total_dist |-> total_dist,
              arrival_time |-> arrival_time]

\* Lines 249-279 for one drone: the candidate route, or no candidate.
\* travel_time = total_dist / speed; arrival_time = state['time'] + travel_time.
csp_candidate(d, state, p) ==
    LET delivery == deliveries[p]
        path == find_path(state.position, delivery.position, no_fly_zones, state.time)
        total_dist == PathLength(path)
        arrival_time == state.time + (total_dist \div drones[d].speed)
    IN  IF delivery.weight > drones[d].max_weight THEN [ok |-> FALSE]
        ELSE IF Len(path) < 2 THEN [ok |-> FALSE]
        ELSE IF path_blocked(path, no_fly_zones, state.time) THEN [ok |-> FALSE]
        ELSE IF total_dist > state.battery THEN [ok |-> FALSE]
        ELSE IF ~(delivery.time_window_start <= arrival_time
                  /\ arrival_time <= delivery.time_window_end) THEN [ok |-> FALSE]
        ELSE [ok |-> TRUE, path |-> path, total_dist |-> total_dist,
              arrival_time |-> arrival_time]

\* A slip in line 280: `<=` for `<`, so the last of the earliest drones wins.
csp_best_drone_last(cand) ==
    IF \A d \in Drones : ~cand[d].ok THEN NoDrone
    ELSE CHOOSE d \in Drones :
            /\ cand[d].ok
            /\ \A o \in Drones :
                cand[o].ok =>
                    \/ cand[d].arrival_time < cand[o].arrival_time
                    \/ (cand[d].arrival_time = cand[o].arrival_time /\ d >= o)

\* Lines 244-283: the drone loop keeps the first drone with the least arrival
\* time (arrival_time < best_arrival_time is strict).  NoDrone when none passes.
csp_best_drone(cand) ==
    IF \A d \in Drones : ~cand[d].ok THEN NoDrone
    ELSE CHOOSE d \in Drones :
            /\ cand[d].ok
            /\ \A o \in Drones :
                cand[o].ok =>
                    \/ cand[d].arrival_time < cand[o].arrival_time
                    \/ (cand[d].arrival_time = cand[o].arrival_time /\ d <= o)

\* A slip in line 285: the parcel appended under every key, not the chosen one.
csp_assign_every(asg, best, p) == [d \in Drones |-> Append(asg[d], p)]

\* Line 285: assignment[best_drone.id].append(delivery)
csp_assign(asg, best, p) == [asg EXCEPT ![best] = Append(@, p)]

\* A slip in line 290: the battery of the snapshot left as it was.
advance_snapshot_uncharged(state, delivery, c) ==
    [position |-> delivery.position,
     battery |-> state.battery,
     time |-> c.arrival_time,
     route |-> state.route \o Tail(c.path)]

\* Lines 286-292: the chosen drone's snapshot after the parcel.
advance_snapshot(state, delivery, c) ==
    [position |-> delivery.position,
     battery |-> state.battery - c.total_dist,
     time |-> c.arrival_time,
     route |-> state.route \o Tail(c.path)]

\* Lines 284-296: one parcel of the loop, on the loop's state
\* st = [drone_states, assignment, deliveries, legs, trail].
csp_step(st, p) ==
    LET cand == [d \in Drones |-> csp_candidate(d, st.drone_states[d], p)]
        best == csp_best_drone(cand)
        c == cand[best]
        state == st.drone_states[best]
    IN  IF best # NoDrone
        THEN [drone_states |->
                [st.drone_states EXCEPT
                    ![best] = advance_snapshot(state, deliveries[p], c)],
              assignment |-> csp_assign(st.assignment, best, p),
              deliveries |-> [st.deliveries EXCEPT ![p].assigned_drone = best,
                                                   ![p].status = "completed"],
              legs |-> st.legs \cup {[drone |-> best, path |-> c.path,
                                      depart |-> state.time, timed |-> TRUE]},
              trail |-> Append(st.trail,
                               [parcel |-> p, before |-> st.drone_states,
                                cand |-> cand, best |-> best,
                                after |-> [st.drone_states EXCEPT
                                              ![best] = advance_snapshot(state, deliveries[p], c)]])]
        ELSE [st EXCEPT !.deliveries[p].status = "failed",
                        !.trail = Append(@, [parcel |-> p, before |-> st.drone_states,
                                             cand |-> cand, best |-> best,
                                             after |-> st.drone_states])]

\* A slip in lines 241-243: the budget never tested, every parcel walked.
RECURSIVE csp_loop_past_deadline(_, _, _)
csp_loop_past_deadline(st, order, n) ==
    IF order = << >> THEN st
    ELSE CHOOSE r \in {csp_loop_past_deadline(after, Tail(order), n) :
                            after \in {csp_step(now, Head(order)) : now \in {st}}} : TRUE

\* The for loop over the first n parcels of the order (lines 240-296).
RECURSIVE csp_loop(_, _, _)
csp_loop(st, order, n) ==
    IF n = 0 THEN st
    ELSE CHOOSE r \in {csp_step(before, order[n]) :
                            before \in {csp_loop(st, order, n - 1)}} : TRUE

\* DeliveryOptimizer(...).solve_csp(), as optimize_deliveries calls it.  The
\* wall-clock budget runs out before parcel number n + 1 of the order is
\* considered (n = all of them: it does not run out).
solve_csp ==
    /\ ops < MaxOps
    /\ constructor_accepts(drones, deliveries)
    /\ \E n \in 0..Len(csp_order) :
        \E st \in {csp_loop([drone_states |-> initial_drone_states_csp,
                             assignment |-> [d \in Drones |-> << >>],
                             deliveries |-> deliveries,
                             legs |-> {},
                             trail |-> << >>],
                            csp_order, n)} :
            /\ drones' = [d \in Drones |->
                            [drones[d] EXCEPT
                                !.route = st.drone_states[d].route,
                                !.current_position = st.drone_states[d].position,
                                !.current_battery = st.drone_states[d].battery]]
            /\ deliveries' = st.deliveries
            /\ assignment' = st.assignment
            /\ legs' = st.legs
            /\ trail' = st.trail
            /\ considered' = {csp_order[i] : i \in 1..n}
    /\ optimizer' = store_initial_states("DeliveryOptimizer")
    /\ last' = "solve_csp"
    /\ prev' = last
    /\ ops' = ops + 1
    /\ raised' = "none"
    /\ UNCHANGED <<no_fly_zones, query>>

--------------------------------------------------------------------------
(* drone.py, delivery.py *)

\* A slip in can_carry: a load equal to max_weight refused.
can_carry_below(drone, weight) == drone.current_weight + weight < drone.max_weight

\* Drone.can_carry
can_carry(drone, weight) == drone.current_weight + weight <= drone.max_weight

\* Delivery.is_within_time_window
is_within_time_window(delivery, t) ==
    delivery.time_window_start <= t /\ t <= delivery.time_window_end

\* Drone.update_position
update_position(drone, new_position, distance) ==
    [drone EXCEPT !.current_position = new_position,
                  !.current_battery = @ - (distance \div drone.speed),
                  !.route = Append(@, new_position)]

\* A slip in mark_failed: the status of mark_completed written.
mark_failed_as_completed(delivery) == [delivery EXCEPT !.status = "completed"]

\* A slip in mark_failed: the status left as it was.
mark_failed_skipped(delivery) == delivery

\* Delivery.mark_completed, Delivery.mark_failed
mark_completed(delivery) == [delivery EXCEPT !.status = "completed"]
mark_failed(delivery) == [delivery EXCEPT !.status = "failed"]

--------------------------------------------------------------------------
(* optimizer.py: GeneticOptimizer *)

\* The verdict every GeneticOptimizer method draws from a route: "none" for
\* `not path`, "blocked" for a route through an active zone, "ok" otherwise.
route_verdict(drone, delivery) ==
    LET path == find_path(drone.current_position, delivery.position,
                          no_fly_zones, current_time)
    IN  IF path = << >> THEN "none"
        ELSE IF path_blocked(path, no_fly_zones, current_time) THEN "blocked"
        ELSE "ok"

\* solve_greedy lines 629-645: the drones a parcel may go to.
greedy_feasible(d, p) ==
    /\ can_carry(drones[d], deliveries[p].weight)
    /\ is_within_time_window(deliveries[p], current_time)
    /\ route_verdict(drones[d], deliveries[p]) = "ok"

\* The first drone at the least straight-line distance (dist < best_dist).
greedy_best_drone(p) ==
    LET ok == {d \in Drones : greedy_feasible(d, p)}
        dist(d) == Distance(drones[d].current_position, deliveries[p].position)
    IN  IF ok = {} THEN NoDrone
        ELSE CHOOSE d \in ok :
                \A o \in ok : dist(d) < dist(o) \/ (dist(d) = dist(o) /\ d <= o)

\* The list a drone's key holds once every parcel of `order` is placed.
RECURSIVE ListOf(_, _, _)
ListOf(d, choice, order) ==
    IF order = << >> THEN << >>
    ELSE (IF choice[Head(order)] = d THEN <<Head(order)>> ELSE << >>)
         \o ListOf(d, choice, Tail(order))

\* A greedy planner that carries each drone to the last parcel it was given.
solve_greedy_flying ==
    /\ ops < MaxOps
    /\ constructor_accepts(drones, deliveries)
    /\ \E best \in {[p \in Deliveries |-> greedy_best_drone(p)]} :
        /\ assignment' = [d \in Drones |-> ListOf(d, best, DeliveryOrder)]
        /\ deliveries' = [p \in Deliveries |->
                            IF best[p] # NoDrone THEN mark_completed(deliveries[p])
                            ELSE mark_failed(deliveries[p])]
        /\ drones' = [d \in Drones |->
                        IF \E p \in Deliveries : best[p] = d
                        THEN [drones[d] EXCEPT !.current_position =
                                deliveries[CHOOSE p \in Deliveries : best[p] = d].position]
                        ELSE drones[d]]
    /\ considered' = Deliveries
    /\ optimizer' = store_initial_states("GeneticOptimizer")
    /\ legs' = {}
    /\ last' = "solve_greedy"
    /\ prev' = last
    /\ ops' = ops + 1
    /\ trail' = << >>
    /\ raised' = "none"
    /\ UNCHANGED <<no_fly_zones, query>>

\* GeneticOptimizer.solve_greedy.  Every drone is looked at as it stands: no
\* drone is moved, so the parcels are decided independently of each other.
solve_greedy ==
    /\ ops < MaxOps
    /\ constructor_accepts(drones, deliveries)
    /\ \E best \in {[p \in Deliveries |-> greedy_best_drone(p)]} :
        /\ assignment' = [d \in Drones |-> ListOf(d, best, DeliveryOrder)]
        /\ deliveries' = [p \in Deliveries |->
                            IF best[p] # NoDrone THEN mark_completed(deliveries[p])
                            ELSE mark_failed(deliveries[p])]
    /\ considered' = Deliveries
    /\ optimizer' = store_initial_states("GeneticOptimizer")
    /\ legs' = {}
    /\ last' = "solve_greedy"
    /\ prev' = last
    /\ ops' = ops + 1
    /\ trail' = << >>
    /\ raised' = "none"
    /\ UNCHANGED <<drones, no_fly_zones, query>>

\* Size of the population of the genetic search (population_size).
GaPopulation == 3

\* An individual is a list of pairs (drone id, parcel index); the index is a
\* position of self.deliveries, counted from 1 here and from 0 in the code.
\* _random_individual (lines 612-614) and each member of the population of
\* _initialize_population (lines 532-541): a random drone for every index.
random_individuals ==
    {[i \in 1..Len(DeliveryOrder) |-> <<choice[i], i>>] :
        choice \in [1..Len(DeliveryOrder) -> Drones]}

\* A crossover whose second slice starts one position early.
crossover_overlapping(parent1, parent2, point) ==
    SubSeq(parent1, 1, point) \o SubSeq(parent2, Max(point, 1), Len(parent2))

\* _crossover with point = random.randint(0, len(parent1) - 1):
\* parent1[:point] + parent2[point:].
crossover(parent1, parent2, point) ==
    SubSeq(parent1, 1, point) \o SubSeq(parent2, point + 1, Len(parent2))

\* _mutate: picks[idx] is the drone drawn for position idx, NoDrone where the
\* mutation rate was not met; the index of the pair is kept.
mutate(solution, picks) ==
    [idx \in 1..Len(solution) |->
        IF picks[idx] # NoDrone THEN <<picks[idx], solution[idx][2]>>
        ELSE solution[idx]]

\* _convert_to_assignment, the list of drone d: the parcels of the pairs that
\* name d, in the order of the pairs.
RECURSIVE decoded_list(_, _, _)
decoded_list(d, solution, i) ==
    IF i > Len(solution) THEN << >>
    ELSE (IF solution[i][1] = d THEN <<DeliveryOrder[solution[i][2]]>> ELSE << >>)
         \o decoded_list(d, solution, i + 1)

\* _convert_to_assignment: one list per drone of the fleet.
convert_to_assignment(solution) ==
    [d \in Drones |-> decoded_list(d, solution, 1)]

\* The parcels of an assignment in the order its items are walked.
RECURSIVE Flatten(_, _)
Flatten(asg, order) ==
    IF order = << >> THEN << >>
    ELSE (LET d == Head(order) IN [i \in 1..Len(asg[d]) |-> <<d, asg[d][i]>>])
         \o Flatten(asg, Tail(order))

\* solve lines 514-529: the stamp one parcel of the decoded assignment gets.
ga_stamp(d, p) ==
    LET verdict == route_verdict(drones[d], deliveries[p])
    IN  IF verdict = "none" THEN deliveries[p]
        ELSE IF verdict = "blocked" THEN mark_failed(deliveries[p])
        ELSE mark_completed(deliveries[p])

\* The stamp of every (drone, parcel) pair; no drone moves during solve, so
\* the stamp of a pair does not depend on the pairs stamped before it.
ga_stamps == [d \in Drones |-> [p \in Deliveries |-> ga_stamp(d, p)]]

\* Where the deadline of solve can fall: before any individual was scored
\* (lines 426, 436 in generation 0), after one was scored (later in the
\* search or in the final loop), or not at all.
Deadlines == {"unscored", "scored", "none"}

\* Lines 488-496: with no best_solution the fallback scores the whole
\* population, max(population, key=self._calculate_fitness); the number of
\* fitness evaluations it makes.  A search that scored an individual makes none.
fallback_evaluations(deadline) ==
    IF deadline = "unscored" THEN GaPopulation ELSE 0

\* The parcels the final loop (lines 503-529) looks at of a walk of the given
\* length: none when the deadline fell before anything was scored, all when
\* it never falls, any number short of all otherwise (none when it fell in
\* the search).
stamped_counts(deadline, length) ==
    IF deadline = "unscored" THEN {0}
    ELSE IF deadline = "none" THEN {length}
    ELSE 0..(length - 1)

\* GeneticOptimizer.solve.  The search (lines 415-496) is random: every
\* individual can be the one it ends with (a population made of copies of one
\* individual keeps it as best_solution, scored or not).  The final loop
\* (lines 503-529) stamps the parcels of the decoded assignment until the
\* deadline expires, after n of them.  The record in trail tells where the
\* deadline fell and what was evaluated after it: fitness evaluations, each of
\* them one route search per parcel.
solve ==
    /\ ops < MaxOps
    /\ constructor_accepts(drones, deliveries)
    /\ \E stamps \in {ga_stamps} :
        \E best_solution \in random_individuals, deadline \in Deadlines :
        \E asg \in {convert_to_assignment(best_solution)} :
        \E walk \in {Flatten(asg, DroneOrder)} :
        \E n \in stamped_counts(deadline, Len(walk)) :
            /\ assignment' = asg
            /\ considered' = {walk[i][2] : i \in 1..n}
            /\ deliveries' = [p \in Deliveries |->
                                IF \E i \in 1..n : walk[i][2] = p
                                THEN stamps[walk[CHOOSE i \in 1..n : walk[i][2] = p][1]][p]
                                ELSE deliveries[p]]
            /\ trail' = <<[deadline |-> deadline,
                           best_solution |-> best_solution,
                           late_fitness |-> fallback_evaluations(deadline),
                           late_routes |-> fallback_evaluations(deadline)
                                            * Len(best_solution)]>>
    /\ optimizer' = store_initial_states("GeneticOptimizer")
    /\ legs' = {}
    /\ last' = "solve"
    /\ prev' = last
    /\ ops' = ops + 1
    /\ raised' = "none"
    /\ UNCHANGED <<drones, no_fly_zones, query>>

\* reset_all_data of the planner built last (DeliveryOptimizer lines 139-166,
\* GeneticOptimizer lines 386-410: the same effect on drones and parcels).
reset_drone(drone, initial_state) ==
    [drone EXCEPT !.current_position = initial_state.position,
                  !.current_battery = initial_state.battery,
                  !.route = << >>]

reset_all_data ==
    /\ ops < MaxOps
    /\ optimizer.kind # "none"
    /\ drones' = [d \in Drones |->
                    reset_drone(drones[d], optimizer.initial_drone_states[d])]
    /\ deliveries' = [p \in Deliveries |->
                        [deliveries[p] EXCEPT
                            !.status = optimizer.initial_delivery_states[p].status,
                            !.assigned_drone =
                                optimizer.initial_delivery_states[p].assigned_drone]]
    /\ considered' = {}
    /\ legs' = {}
    /\ last' = "reset_all_data"
    /\ prev' = last
    /\ ops' = ops + 1
    /\ trail' = << >>
    /\ raised' = "none"
    /\ UNCHANGED <<no_fly_zones, assignment, optimizer, query>>

--------------------------------------------------------------------------
(* main.py: DroneDeliverySystem.execute_deliveries *)

\* Lines 103-106: walk the drone along the path from index i.
RECURSIVE walk_path(_, _, _)
walk_path(drone, path, i) ==
    IF i >= Len(path) THEN drone
    ELSE walk_path(update_position(drone, path[i + 1], Distance(path[i], path[i + 1])),
                   path, i + 1)

\* Lines 92-110 for one parcel, on st = [drones, deliveries, legs, trail].
execute_step(st, d, p) ==
    LET drone == st.drones[d]
        path == find_path(drone.current_position, st.deliveries[p].position,
                          no_fly_zones, current_time)
        valid == path # << >> /\ ~path_blocked(path, no_fly_zones, current_time)
    IN  IF valid
        THEN [drones |-> [st.drones EXCEPT ![d] = walk_path(drone, path, 1)],
              deliveries |-> [st.deliveries EXCEPT ![p] = mark_completed(@)],
              legs |-> st.legs \cup {[drone |-> d, path |-> path,
                                      depart |-> current_time, timed |-> FALSE]},
              trail |-> Append(st.trail,
                               [drone |-> d, parcel |-> p, before |-> drone,
                                path |-> path, valid |-> TRUE,
                                after |-> walk_path(drone, path, 1),
                                status |-> mark_completed(st.deliveries[p]).status])]
        ELSE [st EXCEPT !.deliveries[p] = mark_failed(@),
                        !.trail = Append(@, [drone |-> d, parcel |-> p, before |-> drone,
                                             path |-> path, valid |-> FALSE,
                                             after |-> drone,
                                             status |-> mark_failed(st.deliveries[p]).status])]

RECURSIVE execute_loop(_, _, _)
execute_loop(st, walk, n) ==
    IF n = 0 THEN st
    ELSE CHOOSE r \in {execute_step(before, walk[n][1], walk[n][2]) :
                            before \in {execute_loop(st, walk, n - 1)}} : TRUE

\* execute_deliveries(assignment) on the assignment returned last.
execute_deliveries ==
    /\ ops < MaxOps
    /\ \E walk \in {Flatten(assignment, DroneOrder)} :
        \E st \in {execute_loop([drones |-> drones, deliveries |-> deliveries,
                                 legs |-> {}, trail |-> << >>], walk, Len(walk))} :
            /\ drones' = st.drones
            /\ deliveries' = st.deliveries
            /\ legs' = st.legs
            /\ trail' = st.trail
    /\ last' = "execute_deliveries"
    /\ prev' = last
    /\ ops' = ops + 1
    /\ raised' = "none"
    /\ UNCHANGED <<no_fly_zones, assignment, optimizer, considered, query>>

\* generate_report: the counts by status, and for every drone the battery
\* left (get_remaining_battery_percentage) and the parcels it completed.
generate_report ==
    [total_deliveries |-> Cardinality(Deliveries),
     completed_deliveries |->
        Cardinality({p \in Deliveries : deliveries[p].status = "completed"}),
     failed_deliveries |->
        Cardinality({p \in Deliveries : deliveries[p].status = "failed"}),
     in_progress_deliveries |->
        Cardinality({p \in Deliveries : deliveries[p].status = "in_progress"}),
     drone_statistics |->
        [d \in Drones |->
            [battery_remaining |->
                (drones[d].current_battery * 100) \div drones[d].battery_capacity,
             deliveries_completed |->
                Cardinality({p \in Deliveries :
                                /\ deliveries[p].assigned_drone = d
                                /\ deliveries[p].status = "completed"})]]]

--------------------------------------------------------------------------
(* The router on its own: find_path on every pair of positions *)

\* One call find_path(start, goal, ..., zones, time) and the call with the
\* two positions exchanged, under the same zones and time.
find_path_call ==
    /\ query.phase = "asked"
    /\ query' = [query EXCEPT
                    !.phase = "answered",
                    !.path = find_path(query.start, query.goal, query.zones, query.time),
                    !.back = find_path(query.goal, query.start, query.zones, query.time)]
    /\ UNCHANGED <<drones, deliveries, no_fly_zones, assignment, optimizer, last,
                   prev, considered, legs, ops, trail, raised>>

\* A zone that holds the real coordinate of grid cell (1, 1) in its interior,
\* active over the whole horizon.
CoverZone == [x1 |-> 1, y1 |-> 1, x2 |-> 5, y2 |-> 5, start |-> 0, end |-> Horizon]

\* The zone sets a router call is made with.
RouterZones == ZoneChoices \cup {{CoverZone}}

RouterInit ==
    /\ drones = ScenarioDrones(BaseScenario)
    /\ deliveries = ScenarioDeliveries(BaseScenario)
    /\ no_fly_zones = {}
    /\ assignment = [d \in Drones |-> << >>]
    /\ optimizer = NoOptimizer
    /\ last = "init"
    /\ prev = "init"
    /\ considered = {}
    /\ legs = {}
    /\ ops = 0
    /\ trail = << >>
    /\ raised = "none"
    /\ \E start \in Points, goal \in Points, zones \in RouterZones :
        query = [phase |-> "asked", start |-> start, goal |-> goal,
                 zones |-> zones, time |-> current_time,
                 path |-> << >>, back |-> << >>]

RouterNext == find_path_call

RouterSpec == RouterInit /\ [][RouterNext]_vars

\* find_path taken one iteration of its while loop at a time.  query.st is
\* the state of the search (open_set, closed_set, came_from, g_score, counter).
SearchStarts == {<<1, 1>>, <<3, 3>>, <<MaxCoord, 0>>}

SearchInit ==
    /\ drones = ScenarioDrones(BaseScenario)
    /\ deliveries = ScenarioDeliveries(BaseScenario)
    /\ no_fly_zones = {}
    /\ assignment = [d \in Drones |-> << >>]
    /\ optimizer = NoOptimizer
    /\ last = "init"
    /\ prev = "init"
    /\ considered = {}
    /\ legs = {}
    /\ ops = 0
    /\ trail = << >>
    /\ raised = "none"
    /\ \E start \in SearchStarts, goal \in Points, zones \in RouterZones :
        query = [phase |-> "searching", start |-> start, goal |-> goal,
                 zones |-> zones, time |-> current_time,
                 st |-> search_start(start, goal, zones, current_time),
                 path |-> << >>]

SearchFrame ==
    UNCHANGED <<drones, deliveries, no_fly_zones, assignment, optimizer, last,
                prev, considered, legs, ops, trail, raised>>

\* The popped cell is the goal cell: reconstruct and return (lines 86-95).
search_pop_goal ==
    /\ query.phase = "searching"
    /\ query.st.open # {}
    /\ HeapMin(query.st.open)[3] = to_grid(query.goal)
    /\ query' = [query EXCEPT
                    !.phase = "answered",
                    !.path = <<query.start>>
                             \o Reconstruct(query.st.came, to_grid(query.goal))]
    /\ SearchFrame

\* The popped cell is not the goal cell: close it and relax its neighbors.
search_expand ==
    /\ query.phase = "searching"
    /\ query.st.open # {}
    /\ HeapMin(query.st.open)[3] # to_grid(query.goal)
    /\ \E after \in {search_step(query.st, query.goal, query.zones, query.time)} :
        query' = [query EXCEPT !.st = after]
    /\ SearchFrame

\* The frontier is empty: return [] (line 113).
search_exhausted ==
    /\ query.phase = "searching"
    /\ query.st.open = {}
    /\ query' = [query EXCEPT !.phase = "answered", !.path = << >>]
    /\ SearchFrame

SearchNext == search_pop_goal \/ search_expand \/ search_exhausted

\* The loop of find_path runs on without interruption.
SearchSpec == SearchInit /\ [][SearchNext]_vars /\ WF_vars(SearchNext)

\* The individuals GeneticOptimizer.solve makes, one per step.  population
\* holds the individuals alive, the newest last: a new individual joins it
\* and the oldest leaves, so that a child can become a parent in its turn.
\* made tells how the newest one was made.
GeneticInit ==
    /\ drones = ScenarioDrones(BaseScenario)
    /\ deliveries = ScenarioDeliveries(BaseScenario)
    /\ no_fly_zones = {}
    /\ assignment = [d \in Drones |-> << >>]
    /\ optimizer = NoOptimizer
    /\ last = "init"
    /\ prev = "init"
    /\ considered = {}
    /\ legs = {}
    /\ ops = 0
    /\ trail = << >>
    /\ raised = "none"
    /\ \E population \in [1..GaPopulation -> random_individuals] :
        query = [phase |-> "evolving", population |-> population,
                 made |-> [kind |-> "initial", point |-> 0, mutated |-> 0]]

\* Line 474: a random individual is injected.
ga_inject ==
    /\ query.phase = "evolving"
    /\ \E individual \in random_individuals :
        query' = [query EXCEPT
                    !.population = Tail(@) \o <<individual>>,
                    !.made = [kind |-> "random", point |-> 0, mutated |-> 0]]
    /\ SearchFrame

\* Lines 476-479: two parents of the population, their crossover child, the
\* child mutated.
ga_breed ==
    /\ query.phase = "evolving"
    /\ \E i, j \in 1..Len(query.population) :
        \E point \in 0..(Len(query.population[i]) - 1) :
        \E crossed \in {crossover(query.population[i], query.population[j], point)} :
        \E picks \in [1..Len(crossed) -> Drones \cup {NoDrone}] :
        \E child \in {mutate(crossed, picks)} :
            query' = [query EXCEPT
                        !.population = Tail(@) \o <<child>>,
                        !.made = [kind |-> "child", point |-> point,
                                  mutated |-> Cardinality({k \in DOMAIN picks :
                                                            picks[k] # NoDrone})]]
    /\ SearchFrame

GeneticNext == ga_inject \/ ga_breed

GeneticSpec == GeneticInit /\ [][GeneticNext]_vars

\* optimize_deliveries on a system the planner's constructor refuses: the
\* ValueError of __init__ leaves optimize_deliveries, whatever the strategy,
\* before anything is planned or returned.
optimize_deliveries_raises ==
    /\ ops < MaxOps
    /\ ~constructor_accepts(drones, deliveries)
    /\ \E strategy \in Planners : last' = strategy
    /\ raised' = "ValueError"
    /\ considered' = {}
    /\ legs' = {}
    /\ trail' = << >>
    /\ prev' = last
    /\ ops' = ops + 1
    /\ UNCHANGED <<drones, deliveries, no_fly_zones, assignment, optimizer, query>>

Next ==
    \/ solve_csp
    \/ solve
    \/ solve_greedy
    \/ execute_deliveries
    \/ reset_all_data

Spec == Init /\ [][Next]_vars

\* Systems that may hold no drone or no parcel, and the operations on them.
ConstructorInit ==
    /\ \E s \in Scenarios, fleet \in {DroneIds, {}}, parcels \in {DeliveryIds, {}} :
        /\ drones = [d \in fleet |-> ScenarioDrones(s)[d]]
        /\ deliveries = [p \in parcels |-> ScenarioDeliveries(s)[p]]
        /\ no_fly_zones = s.zones
    /\ assignment = [d \in Drones |-> << >>]
    /\ optimizer = NoOptimizer
    /\ last = "init"
    /\ prev = "init"
    /\ considered = {}
    /\ legs = {}
    /\ ops = 0
    /\ query = NoQuery
    /\ trail = << >>
    /\ raised = "none"

ConstructorNext == Next \/ optimize_deliveries_raises

ConstructorSpec == ConstructorInit /\ [][ConstructorNext]_vars

--------------------------------------------------------------------------
(* Properties *)

Terminal == {"completed", "failed"}

\* C1: after any sequence of optimize and execute calls every drone's
\* current_battery lies in [0, battery_capacity]; execute_deliveries never
\* drives it below 0.
C1_EnergyWithinCapacity ==
    \A d \in Drones :
        /\ 0 <= drones[d].current_battery
        /\ drones[d].current_battery <= drones[d].battery_capacity

\* C2: terminal statuses are sticky: once a parcel is completed or failed, no
\* later planner run and no later execute_deliveries call changes its status.
C2_TerminalSticky ==
    [][last' \in Planners \cup {"execute_deliveries"} =>
        \A p \in Deliveries :
            deliveries[p].status \in Terminal =>
                deliveries'[p].status = deliveries[p].status]_vars

\* C3: executing the assignment solve_csp returned leaves every completed
\* parcel completed and every drone's position, battery and route as solve_csp
\* committed them.
C3_ExecuteAfterCspIdempotent ==
    [][(last = "solve_csp" /\ last' = "execute_deliveries") =>
        /\ \A p \in Deliveries :
            deliveries[p].status = "completed" => deliveries'[p].status = "completed"
        /\ \A d \in Drones :
            /\ drones'[d].current_position = drones[d].current_position
            /\ drones'[d].current_battery = drones[d].current_battery
            /\ drones'[d].route = drones[d].route]_vars

\* Number of times parcel p stands in the lists of an assignment.
Occurrences(asg, p) ==
    Cardinality({<<d, i>> \in (DOMAIN asg) \X (1..Cardinality(Deliveries)) :
                    i <= Len(asg[d]) /\ asg[d][i] = p})

\* C4: the assignment each planner returns has a key for every drone of the
\* fleet and holds no parcel in two lists (nor twice in one).
C4_AssignmentKeysAndDisjoint ==
    last \in Planners =>
        /\ DOMAIN assignment = Drones
        /\ \A d \in Drones : Len(assignment[d]) <= Cardinality(Deliveries)
        /\ \A p \in Deliveries : Occurrences(assignment, p) <= 1

\* C4 witness: a planner returned an assignment with an empty list and a
\* list of two parcels.
C4_Witness ==
    /\ last \in Planners
    /\ \E d \in Drones : assignment[d] = << >>
    /\ \E d \in Drones : Len(assignment[d]) = 2

\* C5: after optimize followed by execute every parcel is completed or
\* failed, except parcels the planner had not considered when its deadline
\* expired, which are still pending.
C5_TerminalAfterOptimizeExecute ==
    (last = "execute_deliveries" /\ prev \in Planners) =>
        \A p \in Deliveries :
            \/ deliveries[p].status \in Terminal
            \/ (p \notin considered /\ deliveries[p].status = "pending")

\* C5 witness: after optimize and execute one parcel the planner considered
\* is completed or failed and one it never reached is still pending.
C5_Witness ==
    /\ last = "execute_deliveries"
    /\ prev \in Planners
    /\ \E p \in considered : deliveries[p].status \in Terminal
    /\ \E p \in Deliveries \ considered : deliveries[p].status = "pending"

\* C6: a parcel heavier than the max_weight of every drone is marked failed
\* by every planner that considers it.
C6_OverweightFailed ==
    last \in Planners =>
        \A p \in considered :
            (\A d \in Drones : deliveries[p].weight > drones[d].max_weight)
                => deliveries[p].status = "failed"

\* C7: a parcel whose time window ends before the planning instant is marked
\* failed by every planner that considers it.
C7_PastWindowFailed ==
    last \in Planners =>
        \A p \in considered :
            deliveries[p].time_window_end < current_time
                => deliveries[p].status = "failed"

\* C8: after any operation every drone's route is non-empty and begins at the
\* drone's start_position.
C8_RouteBeginsAtHome ==
    \A d \in Drones :
        /\ Len(drones[d].route) >= 1
        /\ drones[d].route[1] = drones[d].start_position

\* The time span in which a leg's segment i is flown: from the departure,
\* at the drone's speed; a leg of the executor, which keeps no clock, is
\* flown at its departure time.
SegmentSpan(leg, i) ==
    IF leg.timed
    THEN <<leg.depart + (PathLength(SubSeq(leg.path, 1, i)) \div drones[leg.drone].speed),
           leg.depart + (PathLength(SubSeq(leg.path, 1, i + 1)) \div drones[leg.drone].speed)>>
    ELSE <<leg.depart, leg.depart>>

\* C9: no segment that solve_csp or execute_deliveries appends to a route
\* intersects a zone that is active while the drone flies that segment.
C9_NoActiveZoneCrossed ==
    \A leg \in legs : \A i \in 1..(Len(leg.path) - 1) : \A zone \in no_fly_zones :
        LET span == SegmentSpan(leg, i)
        IN  ~(/\ intersects_line(zone, leg.path[i], leg.path[i + 1])
              /\ \E t \in span[1]..span[2] : is_active(zone, t))

\* C10: router symmetry: when find_path(a, b) returns a non-empty path, so
\* does find_path(b, a) under the same zones and time.
C10_RouterSymmetry ==
    query.phase = "answered" => (query.path # << >> => query.back # << >>)

\* C11: solve_csp considers the parcels in non-increasing priority order, and
\* each parcel is evaluated against the snapshots the parcel before it left.
C11_CspPriorityOrder ==
    last = "solve_csp" =>
        /\ {trail[i].parcel : i \in 1..Len(trail)} = considered
        /\ \A i, j \in 1..Len(trail) :
            i < j =>
                /\ deliveries[trail[i].parcel].priority
                        >= deliveries[trail[j].parcel].priority
                /\ (j = i + 1 => trail[j].before = trail[i].after)

\* C11 witness: solve_csp assigned the parcel of higher priority, second in
\* list order, before it evaluated the parcel of lower priority.
C11_Witness ==
    /\ last = "solve_csp"
    /\ Len(trail) = 2
    /\ trail[1].parcel > trail[2].parcel
    /\ deliveries[trail[1].parcel].priority > deliveries[trail[2].parcel].priority
    /\ trail[1].best # NoDrone
    /\ trail[2].before # trail[1].before

\* C12: when the budget of solve_csp runs out before a parcel is considered,
\* the parcels not yet considered keep their status and assigned drone, the
\* assignment returned holds what was assigned so far, and every drone gets
\* the position, battery and route of its snapshot.
C12_CspTimeoutPartial ==
    [][(last' = "solve_csp" /\ ops' = ops + 1 /\ considered' # Deliveries) =>
        /\ \A p \in Deliveries \ considered' : deliveries'[p] = deliveries[p]
        /\ \A d \in Drones :
            /\ {assignment'[d][i] : i \in 1..Len(assignment'[d])}
                    = {trail'[k].parcel : k \in {k \in 1..Len(trail') : trail'[k].best = d}}
            /\ LET snapshot == IF trail' = << >>
                                THEN [position |-> drones[d].current_position,
                                      battery |-> drones[d].current_battery,
                                      route |-> drones[d].route]
                                ELSE trail'[Len(trail')].after[d]
               IN  /\ drones'[d].current_position = snapshot.position
                   /\ drones'[d].current_battery = snapshot.battery
                   /\ drones'[d].route = snapshot.route]_vars

\* C12 witness: solve_csp ran out of budget after one parcel, which it
\* assigned and whose drone it moved; the other parcel is still pending.
C12_Witness ==
    /\ last = "solve_csp"
    /\ Len(trail) = 1
    /\ trail[1].best # NoDrone
    /\ assignment[trail[1].best] = <<trail[1].parcel>>
    /\ drones[trail[1].best].current_position = deliveries[trail[1].parcel].position
    /\ drones[trail[1].best].current_battery < drones[trail[1].best].battery_capacity
    /\ \E p \in Deliveries \ considered : deliveries[p].status = "pending"

\* What solve_csp computes for drone d and the parcel of a trail record, from
\* the snapshot the record started with: the route, its length, the arrival.
RoutePlanned(rec, d) ==
    find_path(rec.before[d].position, deliveries[rec.parcel].position,
              no_fly_zones, rec.before[d].time)

ArrivalPlanned(rec, d) ==
    rec.before[d].time + (PathLength(RoutePlanned(rec, d)) \div drones[d].speed)

\* Drone d passes the checks on the route: found, not blocked, within battery.
RouteChecksPass(rec, d) ==
    /\ Len(RoutePlanned(rec, d)) >= 2
    /\ ~path_blocked(RoutePlanned(rec, d), no_fly_zones, rec.before[d].time)
    /\ PathLength(RoutePlanned(rec, d)) <= rec.before[d].battery

\* C13: in solve_csp a drone that passes the other checks is accepted for a
\* parcel exactly when its arrival time lies in the closed time window:
\* accepted at the window end, rejected after it or before the window start.
C13_ClosedTimeWindow ==
    last = "solve_csp" =>
        \A k \in 1..Len(trail) : \A d \in Drones :
            LET rec == trail[k]
                delivery == deliveries[rec.parcel]
            IN  (delivery.weight <= drones[d].max_weight /\ RouteChecksPass(rec, d)) =>
                    (rec.cand[d].ok <=>
                        /\ delivery.time_window_start <= ArrivalPlanned(rec, d)
                        /\ ArrivalPlanned(rec, d) <= delivery.time_window_end)

\* C13 witness: for one parcel solve_csp accepted a drone that arrives at the
\* window end and rejected a drone, fit otherwise, that arrives after it.
C13_Witness ==
    /\ last = "solve_csp"
    /\ \E k \in 1..Len(trail) : \E d, o \in Drones :
        /\ trail[k].best = d
        /\ trail[k].cand[d].arrival_time = deliveries[trail[k].parcel].time_window_end
        /\ ~trail[k].cand[o].ok
        /\ deliveries[trail[k].parcel].weight <= drones[o].max_weight
        /\ RouteChecksPass(trail[k], o)
        /\ ArrivalPlanned(trail[k], o) > deliveries[trail[k].parcel].time_window_end

\* Drone d passes every check of solve_greedy but the weight for parcel p.
GreedyFitButWeight(d, p) ==
    /\ is_within_time_window(deliveries[p], current_time)
    /\ route_verdict(drones[d], deliveries[p]) = "ok"

\* C14: a parcel whose weight equals a drone's max_weight passes the weight
\* check of that drone in solve_csp and in solve_greedy; only a weight
\* strictly above max_weight is rejected.
C14_WeightBoundary ==
    /\ last = "solve_csp" =>
        \A k \in 1..Len(trail) : \A d \in Drones :
            LET rec == trail[k]
                delivery == deliveries[rec.parcel]
            IN  (/\ RouteChecksPass(rec, d)
                 /\ delivery.time_window_start <= ArrivalPlanned(rec, d)
                 /\ ArrivalPlanned(rec, d) <= delivery.time_window_end) =>
                    (rec.cand[d].ok <=> delivery.weight <= drones[d].max_weight)
    /\ last = "solve_greedy" =>
        \A p \in Deliveries :
            /\ deliveries[p].status = "completed" <=>
                    \E d \in Drones : /\ GreedyFitButWeight(d, p)
                                       /\ deliveries[p].weight <= drones[d].max_weight
            /\ \A d \in Drones :
                    (\E i \in 1..Len(assignment[d]) : assignment[d][i] = p) =>
                        deliveries[p].weight <= drones[d].max_weight

\* C14 witness: a parcel as heavy as max_weight that solve_csp gave to a
\* drone and that solve_greedy, run next, gave to a drone as well.
C14_Witness ==
    /\ last = "solve_greedy"
    /\ prev = "solve_csp"
    /\ \E p \in Deliveries : \E d \in Drones :
        /\ deliveries[p].assigned_drone # NoDrone
        /\ deliveries[p].weight = drones[deliveries[p].assigned_drone].max_weight
        /\ deliveries[p].weight = drones[d].max_weight
        /\ \E i \in 1..Len(assignment[d]) : assignment[d][i] = p
        /\ deliveries[p].status = "completed"

\* C15: optimize_deliveries on a system with no drone or with no parcel
\* raises the constructor's ValueError, whatever the strategy, returns no
\* assignment and changes no drone and no parcel.
C15_EmptyInputRaises ==
    [][((Drones = {} \/ Deliveries = {}) /\ last' \in Planners /\ ops' = ops + 1) =>
        /\ raised' = "ValueError"
        /\ UNCHANGED <<drones, deliveries, assignment>>]_vars

\* C15 witness: optimize_deliveries raised on a fleet that has no parcel.
C15_Witness ==
    /\ raised = "ValueError"
    /\ last \in Planners
    /\ Drones # {}
    /\ Deliveries = {}

\* C16: after a solve_csp that finishes within its budget, followed by
\* execute_deliveries, the report has completed + failed = total and every
\* drone's battery is not below 0.
C16_ReportAfterCspAndExecute ==
    (last = "execute_deliveries" /\ prev = "solve_csp" /\ considered = Deliveries) =>
        /\ generate_report.completed_deliveries + generate_report.failed_deliveries
                = generate_report.total_deliveries
        /\ \A d \in Drones :
            /\ drones[d].current_battery >= 0
            /\ generate_report.drone_statistics[d].battery_remaining >= 0

\* Drone d passes every check of solve_csp for the parcel of a trail record.
CspFit(rec, d) ==
    /\ deliveries[rec.parcel].weight <= drones[d].max_weight
    /\ RouteChecksPass(rec, d)
    /\ deliveries[rec.parcel].time_window_start <= ArrivalPlanned(rec, d)
    /\ ArrivalPlanned(rec, d) <= deliveries[rec.parcel].time_window_end

\* C17: for each parcel solve_csp selects, among the drones that pass every
\* check from their snapshot, one with the earliest arrival time, the first
\* in fleet order among those; it selects none when no drone passes.
C17_EarliestArrivalFirstInFleet ==
    last = "solve_csp" =>
        \A k \in 1..Len(trail) :
            LET rec == trail[k]
            IN  IF \A d \in Drones : ~CspFit(rec, d)
                THEN rec.best = NoDrone
                ELSE /\ rec.best \in Drones
                     /\ CspFit(rec, rec.best)
                     /\ \A o \in Drones :
                            CspFit(rec, o) =>
                                \/ ArrivalPlanned(rec, rec.best) < ArrivalPlanned(rec, o)
                                \/ /\ ArrivalPlanned(rec, rec.best) = ArrivalPlanned(rec, o)
                                   /\ rec.best <= o

\* C17 witness: two drones pass every check for a parcel with the same
\* arrival time and the first of the fleet is selected; for another parcel
\* the second of the fleet, which arrives strictly earlier, is selected.
C17_Witness ==
    /\ last = "solve_csp"
    /\ \E k \in 1..Len(trail) :
        /\ \A d \in Drones : CspFit(trail[k], d)
        /\ ArrivalPlanned(trail[k], 1) = ArrivalPlanned(trail[k], 2)
        /\ trail[k].best = 1
    /\ \E k \in 1..Len(trail) :
        /\ \A d \in Drones : CspFit(trail[k], d)
        /\ ArrivalPlanned(trail[k], 2) < ArrivalPlanned(trail[k], 1)
        /\ trail[k].best = 2

\* C18: when solve_csp assigns a parcel to a drone only that drone's snapshot
\* changes: its position becomes the parcel's, its battery drops by the
\* length of the route, its clock becomes the arrival time, its route grows
\* by the route planned without its first point; the next parcel is
\* evaluated against the snapshots so advanced.
C18_SnapshotAdvance ==
    last = "solve_csp" =>
        \A k \in 1..Len(trail) :
            LET rec == trail[k]
                b == rec.best
            IN  /\ b = NoDrone => rec.after = rec.before
                /\ b # NoDrone =>
                    /\ rec.after[b].position = deliveries[rec.parcel].position
                    /\ rec.after[b].battery
                            = rec.before[b].battery - PathLength(RoutePlanned(rec, b))
                    /\ rec.after[b].time = ArrivalPlanned(rec, b)
                    /\ rec.after[b].route
                            = rec.before[b].route \o Tail(RoutePlanned(rec, b))
                    /\ \A o \in Drones \ {b} : rec.after[o] = rec.before[o]
                /\ k < Len(trail) => trail[k + 1].before = rec.after

\* C18 witness: solve_csp assigned two parcels to one drone, the second
\* evaluated from the position, battery and clock the first left.
C18_Witness ==
    /\ last = "solve_csp"
    /\ Len(trail) = 2
    /\ trail[1].best # NoDrone
    /\ trail[2].best = trail[1].best
    /\ trail[2].before[trail[1].best].position = deliveries[trail[1].parcel].position
    /\ trail[2].before[trail[1].best].battery < trail[1].before[trail[1].best].battery
    /\ trail[2].before[trail[1].best].time > current_time
    /\ trail[2].after[trail[1].best].battery < trail[2].before[trail[1].best].battery

\* The route execute_deliveries computes for a trail record, and whether it
\* is empty or crosses a zone active at current_time.
RouteFlown(rec) ==
    find_path(rec.before.current_position, deliveries[rec.parcel].position,
              no_fly_zones, current_time)

RouteInvalid(rec) ==
    \/ RouteFlown(rec) = << >>
    \/ path_blocked(RouteFlown(rec), no_fly_zones, current_time)

\* C19: in execute_deliveries a parcel whose route is empty or crosses an
\* active zone is marked failed and the drone's position, battery and route
\* are left as they were; the drone's next parcel is routed from there.
C19_ExecuteFailureFrame ==
    last = "execute_deliveries" =>
        \A k \in 1..Len(trail) :
            LET rec == trail[k]
            IN  /\ RouteInvalid(rec) =>
                    /\ rec.status = "failed"
                    /\ deliveries[rec.parcel].status = "failed"
                    /\ rec.after = rec.before
                /\ \A j \in (k + 1)..Len(trail) :
                    (/\ trail[j].drone = rec.drone
                     /\ \A i \in (k + 1)..(j - 1) : trail[i].drone # rec.drone) =>
                        trail[j].before = rec.after
                /\ (\A j \in (k + 1)..Len(trail) : trail[j].drone # rec.drone) =>
                        drones[rec.drone] = rec.after

\* C19 witness: execute_deliveries failed a drone's first parcel for want of
\* a valid route and flew the drone to its next parcel from where it stood.
C19_Witness ==
    /\ last = "execute_deliveries"
    /\ \E k \in 1..(Len(trail) - 1) :
        /\ RouteInvalid(trail[k])
        /\ deliveries[trail[k].parcel].status = "failed"
        /\ trail[k + 1].drone = trail[k].drone
        /\ trail[k + 1].before.current_position = trail[k].before.current_position
        /\ Len(trail[k + 1].path) >= 2
        /\ trail[k + 1].after.current_position # trail[k].before.current_position

\* C20: for a valid route execute_deliveries lowers the drone's battery by
\* the sum of the lengths of the route's segments, the cost solve_csp
\* charges, and appends every node of the route after the first to the
\* drone's route.
C20_ExecuteEnergyIsDistance ==
    last = "execute_deliveries" =>
        \A k \in 1..Len(trail) :
            LET rec == trail[k]
            IN  ~RouteInvalid(rec) =>
                    /\ rec.before.current_battery - rec.after.current_battery
                            = PathLength(RouteFlown(rec))
                    /\ rec.after.route = rec.before.route \o Tail(RouteFlown(rec))

\* The route a planner of GeneticOptimizer computes for drone d and parcel p:
\* from the drone as it stands (these planners move no drone).
RouteFromDrone(d, p) ==
    find_path(drones[d].current_position, deliveries[p].position,
              no_fly_zones, current_time)

\* C21: every planner and the executor treat a route of fewer than 2
\* positions as no route: no parcel is marked completed on a one-point route,
\* the route find_path returns when drone and parcel lie in one grid cell.
C21_OnePointRouteIsNoPath ==
    /\ last = "solve_csp" =>
        \A k \in 1..Len(trail) :
            trail[k].best # NoDrone => Len(RoutePlanned(trail[k], trail[k].best)) >= 2
    /\ last \in {"solve", "solve_greedy"} =>
        \A d \in Drones : \A i \in 1..Len(assignment[d]) :
            (assignment[d][i] \in considered /\ Len(RouteFromDrone(d, assignment[d][i])) = 1)
                => deliveries[assignment[d][i]].status # "completed"
    /\ last = "execute_deliveries" =>
        \A k \in 1..Len(trail) :
            Len(RouteFlown(trail[k])) = 1 => trail[k].status # "completed"

\* The real coordinate of the grid cell of position p lies in the interior of
\* a zone of zs active at time t.
CellInsideActiveZone(p, zs, t) ==
    \E zone \in zs :
        /\ is_active(zone, t)
        /\ zone.x1 < to_real(to_grid(p))[1] /\ to_real(to_grid(p))[1] < zone.x2
        /\ zone.y1 < to_real(to_grid(p))[2] /\ to_real(to_grid(p))[2] < zone.y2

\* C22: find_path returns the empty path whenever the start cell lies inside
\* a zone active at the evaluation time, also when start and goal fall in the
\* same grid cell.
C22_StartInsideZoneNoPath ==
    (query.phase = "answered" /\ CellInsideActiveZone(query.start, query.zones, query.time))
        => query.path = << >>

\* C23: find_path terminates for every start, goal and zone set on a finite
\* grid: it pops the goal cell and returns a path that starts at the caller's
\* exact start position, or it empties the frontier and returns the empty
\* path; no cell is pushed on the frontier after it has been closed.
C23_SearchTerminates ==
    /\ <>(query.phase = "answered")
    /\ [](query.phase = "answered" =>
            \/ query.path = << >> /\ query.st.open = {}
            \/ /\ query.path # << >>
               /\ query.path[1] = query.start
               /\ query.st.open # {}
               /\ HeapMin(query.st.open)[3] = to_grid(query.goal))
    /\ [][\A e \in query'.st.open \ query.st.open : e[3] \notin query'.st.closed]_vars

\* C23 witness: a search around an active zone that closed several cells and
\* returned a path from a start position off its grid cell's coordinate.
C23_Witness ==
    /\ query.phase = "answered"
    /\ \E zone \in query.zones : is_active(zone, query.time)
    /\ Cardinality(query.st.closed) >= 3
    /\ Len(query.path) >= 3
    /\ query.start # to_real(to_grid(query.start))
    /\ query.path[1] = query.start

\* Drone d, as it stands, is feasible for parcel p: weight, route found and
\* clear of the active zones, battery enough for the route, time window.
FeasibleVehicle(d, p) ==
    LET path == RouteFromDrone(d, p)
    IN  /\ deliveries[p].weight <= drones[d].max_weight
        /\ path # << >>
        /\ ~path_blocked(path, no_fly_zones, current_time)
        /\ PathLength(path) <= drones[d].current_battery
        /\ deliveries[p].time_window_start <= current_time
        /\ current_time <= deliveries[p].time_window_end

\* The feasible drone closest to parcel p in a straight line, the first in
\* fleet order among equals; NoDrone when no drone is feasible.
ClosestFeasible(p) ==
    LET ok == {d \in Drones : FeasibleVehicle(d, p)}
        dist(d) == Distance(drones[d].current_position, deliveries[p].position)
    IN  IF ok = {} THEN NoDrone
        ELSE CHOOSE d \in ok :
                \A o \in ok : dist(d) < dist(o) \/ (dist(d) = dist(o) /\ d <= o)

\* C24: solve_greedy takes the parcels in their original order and gives each
\* to the feasible drone (weight, path, zone, battery, time window) closest
\* in a straight line, the first in fleet order on ties, every drone
\* evaluated from its initial state; the parcel is completed when such a
\* drone exists and failed otherwise.
C24_GreedyClosestFeasible ==
    (last = "solve_greedy" /\ prev = "init") =>
        \A p \in Deliveries :
            LET best == ClosestFeasible(p)
            IN  /\ \A d \in Drones :
                    (\E i \in 1..Len(assignment[d]) : assignment[d][i] = p) <=> d = best
                /\ deliveries[p].status = (IF best # NoDrone THEN "completed" ELSE "failed")
                /\ \A d \in Drones : \A i, j \in 1..Len(assignment[d]) :
                    i < j => assignment[d][i] < assignment[d][j]

\* C25: GeneticOptimizer.solve and solve_greedy change no drone: position,
\* energy, route and every other field of every drone are as before the call.
C25_PlannersLeaveDrones ==
    [][(ops' # ops /\ last' \in {"solve", "solve_greedy"}) => drones' = drones]_vars

\* C25 witness: solve_greedy completed a parcel for a drone that solve_csp
\* had moved off its start position, and the drone is where solve_csp left it.
C25_Witness ==
    /\ last = "solve_greedy"
    /\ prev = "solve_csp"
    /\ \E d \in Drones :
        /\ drones[d].current_position # drones[d].start_position
        /\ drones[d].current_battery < drones[d].battery_capacity
        /\ \E i \in 1..Len(assignment[d]) :
            /\ deliveries[assignment[d][i]].status = "completed"
            /\ deliveries[assignment[d][i]].position # drones[d].current_position

\* Number of times parcel p stands in the lists decoded from an individual.
DecodedOccurrences(solution, p) ==
    LET asg == convert_to_assignment(solution)
    IN  Cardinality({<<d, i>> \in Drones \X (1..Len(solution)) :
                        i <= Len(asg[d]) /\ asg[d][i] = p})

\* C27: every individual of the genetic search (initial population, random
\* injection, crossover child, mutated child) is as long as there are
\* parcels and holds at position i a drone of the fleet paired with parcel
\* index i; decoding it yields every parcel exactly once.
C27_IndividualsWellFormed ==
    query.phase = "evolving" =>
        \A k \in 1..Len(query.population) :
            LET individual == query.population[k]
            IN  /\ Len(individual) = Cardinality(Deliveries)
                /\ \A i \in 1..Len(individual) :
                    individual[i][1] \in Drones /\ individual[i][2] = i
                /\ \A p \in Deliveries : DecodedOccurrences(individual, p) = 1

\* C27 witness: the newest individual is a child cut at an inner point of
\* its parents and mutated at one position, and it gives its parcels to
\* different drones.
C27_Witness ==
    /\ query.phase = "evolving"
    /\ query.made.kind = "child"
    /\ query.made.point >= 1
    /\ query.made.mutated = 1
    /\ LET child == query.population[Len(query.population)]
       IN  child[1][1] # child[2][1]

\* C26: once its deadline has expired, solve makes no further fitness
\* evaluation and no further route search, and returns the assignment decoded
\* from the best individual scored so far, or from the first or a random
\* individual when none was scored; the result is never null.
C26_NoWorkAfterDeadline ==
    last = "solve" =>
        /\ DOMAIN assignment = Drones
        /\ assignment = convert_to_assignment(trail[1].best_solution)
        /\ trail[1].deadline # "none" =>
            (trail[1].late_fitness = 0 /\ trail[1].late_routes = 0)

\* The sum of deliveries_completed over the drones of S in the report.
RECURSIVE CompletedByDrones(_)
CompletedByDrones(S) ==
    IF S = {} THEN 0
    ELSE LET d == CHOOSE d \in S : TRUE
         IN  generate_report.drone_statistics[d].deliveries_completed
                + CompletedByDrones(S \ {d})

\* C28: after any planner run every completed parcel has assigned_drone set
\* to the drone whose list holds it, so that the deliveries_completed of the
\* drones in the report add up to completed_deliveries.
C28_CompletedHaveAssignedDrone ==
    last \in Planners =>
        /\ \A p \in Deliveries :
            deliveries[p].status = "completed" =>
                /\ deliveries[p].assigned_drone \in Drones
                /\ \E i \in 1..Len(assignment[deliveries[p].assigned_drone]) :
                    assignment[deliveries[p].assigned_drone][i] = p
        /\ CompletedByDrones(Drones) = generate_report.completed_deliveries

\* C29: after solve_csp and after execute_deliveries the current position of
\* every drone is the last position of its route, also when the position of
\* a parcel is not the coordinate of its grid cell.
C29_PositionIsRouteEnd ==
    last \in {"solve_csp", "execute_deliveries"} =>
        \A d \in Drones :
            drones[d].route # << >> =>
                drones[d].current_position = drones[d].route[Len(drones[d].route)]

\* The length of the routes solve_csp assigned to drone d in the first k
\* records of the trail.
RECURSIVE DistanceAssigned(_, _)
DistanceAssigned(d, k) ==
    IF k = 0 THEN 0
    ELSE (IF trail[k].best = d THEN PathLength(RoutePlanned(trail[k], d)) ELSE 0)
         + DistanceAssigned(d, k - 1)

\* C30: every (drone, parcel) pair of the assignment of solve_csp passed all
\* checks when it was assigned: weight within capacity, route length within
\* the energy left in the snapshot, arrival inside the time window.  The
\* arrival times along a drone's list do not decrease, and the energy
\* committed to each drone is its energy before the run less the total
\* length of the routes assigned to it.
C30_CspAssignmentsPassedChecks ==
    (last = "solve_csp" /\ trail # << >>) =>
        /\ \A k \in 1..Len(trail) :
            trail[k].best # NoDrone =>
                /\ CspFit(trail[k], trail[k].best)
                /\ \E i \in 1..Len(assignment[trail[k].best]) :
                    assignment[trail[k].best][i] = trail[k].parcel
        /\ \A d \in Drones : \A i \in 1..Len(assignment[d]) :
            \E k \in 1..Len(trail) :
                trail[k].best = d /\ trail[k].parcel = assignment[d][i]
        /\ \A j, k \in 1..Len(trail) :
            (j < k /\ trail[j].best # NoDrone /\ trail[j].best = trail[k].best) =>
                ArrivalPlanned(trail[j], trail[j].best)
                    <= ArrivalPlanned(trail[k], trail[k].best)
        /\ \A d \in Drones :
            drones[d].current_battery
                = trail[1].before[d].battery - DistanceAssigned(d, Len(trail))

\* C30 witness: solve_csp gave two parcels to one drone, the second reached
\* later than the first, and the drone's energy went down by both routes.
C30_Witness ==
    /\ last = "solve_csp"
    /\ Len(trail) = 2
    /\ trail[1].best # NoDrone
    /\ trail[2].best = trail[1].best
    /\ ArrivalPlanned(trail[1], trail[1].best) < ArrivalPlanned(trail[2], trail[2].best)
    /\ PathLength(RoutePlanned(trail[2], trail[2].best)) > 0
    /\ drones[trail[1].best].current_battery
            < trail[1].before[trail[1].best].battery
                - PathLength(RoutePlanned(trail[1], trail[1].best))

==========================================================================
